---- MODULE Spec2Model ----
(***************************************************************************)
(* Model of blank_slot.py: the per-monitor blank-episode tracker (class    *)
(* Debounce and the body of main's loop), the startup path of main, and    *)
(* the KeyboardInterrupt handler of the __main__ block.                    *)
(*                                                                         *)
(* One step of the model is one iteration of the inner for-loop of main    *)
(* (one monitor, one tick), the time.sleep that ends a pass, the startup   *)
(* of main, or the arrival of a KeyboardInterrupt.                         *)
(*                                                                         *)
(* Time is the value time.time() returns, in whole seconds; it advances    *)
(* while main sleeps.  A sleep lasts BASE_SAMPLE_SEC or one second more.   *)
(*                                                                         *)
(* Spec      the program, bounded by the number of capture attempts.       *)
(* LiveSpec  the same loop with no bound on passes and weak fairness on    *)
(*           the loop's steps, keeping only a window of each history.      *)
(* ClassSpec one run of capture_gray's downscale and blank_metrics on a    *)
(*           frame drawn from InputFrames.                                 *)
(***************************************************************************)
EXTENDS Integers, Sequences, FiniteSets, TLC

\* ---------- Tuning (blank_slot.py lines 19-24) ----------
BASE_SAMPLE_SEC == 1
BLANK_PCT_MIN == 97
BLACK_THRESH == 15
WHITE_THRESH == 240
DEBOUNCE_CLEAR_OK_FRAMES == 2

\* ---------- Bounds of the exploration ----------
\* get_monitors returns between 0 and MaxMonitors monitors.
MaxMonitors == 2
\* Total number of capture attempts (loop-body iterations) explored.
MaxCaptures == 6
\* How far the clock may run ahead of one BASE_SAMPLE_SEC per tick.
MaxDrift == 1
\* Largest height and width of the uniform frames given to capture_gray.
MaxDim == 4
\* get_monitors returns between 0 and LiveMonitors monitors in the run
\* without end.
LiveMonitors == 1

VARIABLES
    pc,         \* "start" | "loop" | "returned" | "stopped" | "crashed"
    monitors,   \* len(monitors): number of monitors get_monitors returned
    debounces,  \* debounces: monitor index -> Debounce
    idx,        \* i of the for-loop: next monitor to process in this pass
    tick,       \* number of the current pass of the while-loop (1-based)
    clock,      \* what time.time() returns now
    hist,       \* per monitor: outcome of each of its ticks so far
    events,     \* per monitor: the Started/Ended records handed to the sink
    errors,     \* per monitor: number of capture-error reports (lines 155-156)
    warnings,   \* number of "No connected monitors" warnings (line 135)
    stopLogs,   \* number of "Blankwatch stopped manually" records (line 205)
    \* One run of capture_gray followed by blank_metrics, on its own:
    cpc,        \* "idle" | "gray" | "scaled" | "measured"
    frame,      \* gray of line 93: rows of luminances, before the downscale
    scaled,     \* gray as capture_gray returns it (line 103)
    metrics     \* what blank_metrics returned for scaled

\* The variables of the capture-and-classify run.
cvars == <<cpc, frame, scaled, metrics>>

vars == <<pc, monitors, debounces, idx, tick, clock, hist, events, errors,
          warnings, stopLogs, cpc, frame, scaled, metrics>>

\* ---------- Frames ----------
\* A gray frame as capture_gray returns it: a sequence of luminances 0..255.
Black == <<0, 0, 0, 0>>
White == <<255, 255, 255, 255>>
Gray  == <<128, 128, 128, 128>>
Mixed == <<0, 255, 0, 255>>
Empty == << >>
Frames == {Black, White, Gray, Mixed, Empty}

\* Mutant: the count stops one element short.
CountBelow_SkipsLast(gray, t) ==
    Cardinality({k \in 1..(Len(gray) - 1) : gray[k] < t})

\* Number of elements of gray satisfying the comparison.
CountBelow(gray, t) == Cardinality({k \in 1..Len(gray) : gray[k] < t})
CountAbove(gray, t) == Cardinality({k \in 1..Len(gray) : gray[k] > t})

\* Mutant: blank_now looks at black_pct only.
blank_metrics_BlackOnly(gray) ==
    LET total == Len(gray)
        black_pct == (CountBelow(gray, BLACK_THRESH) * 100) \div total
        white_pct == (CountAbove(gray, WHITE_THRESH) * 100) \div total
    IN  IF total = 0
        THEN [black_pct |-> 0, white_pct |-> 0, blank_now |-> FALSE]
        ELSE [black_pct |-> black_pct, white_pct |-> white_pct,
              blank_now |-> black_pct >= BLANK_PCT_MIN]

\* blank_metrics: (black_pct, white_pct, blank_now).  The percentages are
\* count * 100.0 / total, kept here as whole percents (rounded down); the
\* comparisons with the whole number BLANK_PCT_MIN are not changed by that.
blank_metrics(gray) ==
    LET total == Len(gray)
        black_pct == (CountBelow(gray, BLACK_THRESH) * 100) \div total
        white_pct == (CountAbove(gray, WHITE_THRESH) * 100) \div total
    IN  IF total = 0
        THEN [black_pct |-> 0, white_pct |-> 0, blank_now |-> FALSE]
        ELSE [black_pct |-> black_pct, white_pct |-> white_pct,
              blank_now |-> (black_pct >= BLANK_PCT_MIN)
                            \/ (white_pct >= BLANK_PCT_MIN)]

\* ---------- capture_gray, lines 94-99: the 0.5 downscale ----------
\* A 2-D array is a sequence of rows; Height and Width are its shape.
Height(g) == Len(g)
Width(g) == IF Len(g) = 0 THEN 0 ELSE Len(g[1])

\* gray[:h2*2, :w2*2].reshape(h2, 2, w2, 2).mean(axis=(1, 3)).astype(uint8):
\* each 2x2 block becomes its mean, cut to a whole number; an odd last row
\* or column is dropped.  With h2 = 0 there is no row; with w2 = 0 every row
\* is empty.
Downscale(g) ==
    LET h2 == Height(g) \div 2
        w2 == Width(g) \div 2
    IN  [r \in 1 .. h2 |->
            [c \in 1 .. w2 |->
                (g[2 * r - 1][2 * c - 1] + g[2 * r - 1][2 * c]
                 + g[2 * r][2 * c - 1] + g[2 * r][2 * c]) \div 4]]

\* The elements of a 2-D array in row order: what gray.size counts and the
\* comparisons of blank_metrics range over.
Flatten(g) ==
    [k \in 1 .. (Height(g) * Width(g)) |->
        g[((k - 1) \div Width(g)) + 1][((k - 1) % Width(g)) + 1]]

\* ---------- Per-monitor state ----------
\* Debounce(): the dataclass defaults.
Debounce ==
    [in_blank |-> FALSE, clear_left |-> 0, start_time |-> 0,
     last_black_pct |-> 0, last_white_pct |-> 0]

Mons == 0 .. (monitors - 1)

\* ---------- The tracker's transitions on one Debounce ----------
\* Mutant: the except-branch restarts the clear countdown.
OnCaptureError_Resets(db) ==
    [db EXCEPT !.clear_left = DEBOUNCE_CLEAR_OK_FRAMES]

\* except-branch of the capture (lines 153-157): db is not touched.
OnCaptureError(db) == db

\* Mutant: the countdown starts one short.
RisingEdge_ShortCountdown(db, m, now) ==
    [in_blank |-> TRUE,
     clear_left |-> DEBOUNCE_CLEAR_OK_FRAMES - 1,
     start_time |-> now,
     last_black_pct |-> m.black_pct,
     last_white_pct |-> m.white_pct]

\* Mutant: db.in_blank = True is forgotten.
RisingEdge_NoFlag(db, m, now) ==
    [in_blank |-> db.in_blank,
     clear_left |-> DEBOUNCE_CLEAR_OK_FRAMES,
     start_time |-> now,
     last_black_pct |-> m.black_pct,
     last_white_pct |-> m.white_pct]

\* Mutant: db.start_time = now is forgotten.
RisingEdge_NoStartTime(db, m, now) ==
    [in_blank |-> TRUE,
     clear_left |-> DEBOUNCE_CLEAR_OK_FRAMES,
     start_time |-> db.start_time,
     last_black_pct |-> m.black_pct,
     last_white_pct |-> m.white_pct]

\* Mutant: the measured percentages are not stored on the rising edge.
RisingEdge_NoMetrics(db, m, now) ==
    [in_blank |-> TRUE,
     clear_left |-> DEBOUNCE_CLEAR_OK_FRAMES,
     start_time |-> now,
     last_black_pct |-> db.last_black_pct,
     last_white_pct |-> db.last_white_pct]

\* Rising edge (lines 166-170).
RisingEdge(db, m, now) ==
    [in_blank |-> TRUE,
     clear_left |-> DEBOUNCE_CLEAR_OK_FRAMES,
     start_time |-> now,
     last_black_pct |-> m.black_pct,
     last_white_pct |-> m.white_pct]

\* Mutant: a blank frame while in_blank restarts the clear countdown.
StillBlank_Resets(db, m) ==
    [db EXCEPT !.clear_left = DEBOUNCE_CLEAR_OK_FRAMES,
               !.last_black_pct = m.black_pct, !.last_white_pct = m.white_pct]

\* Still blank (lines 179-180).
StillBlank(db, m) ==
    [db EXCEPT !.last_black_pct = m.black_pct, !.last_white_pct = m.white_pct]

\* Mutant: the episode ends on "clear_left < 0" instead of "<= 0".
ClearWhileBlank_LateEnd(db) ==
    LET left == db.clear_left - 1
    IN  [db EXCEPT !.clear_left = left,
                   !.in_blank = IF left < 0 THEN FALSE ELSE @]

\* Mutant: "db.clear_left -= 1" is forgotten.
ClearWhileBlank_NoDecrement(db) ==
    [db EXCEPT !.in_blank = IF db.clear_left <= 0 THEN FALSE ELSE @]

\* Mutant: the countdown loses two per clear frame.
ClearWhileBlank_DoubleDecrement(db) ==
    LET left == db.clear_left - 2
    IN  [db EXCEPT !.clear_left = left,
                   !.in_blank = IF left <= 0 THEN FALSE ELSE @]

\* Clear frame while in_blank (lines 184-188).
ClearWhileBlank(db) ==
    LET left == db.clear_left - 1
    IN  [db EXCEPT !.clear_left = left,
                   !.in_blank = IF left <= 0 THEN FALSE ELSE @]

\* Whether that clear frame ends the episode (the branch of line 186).
EndsEpisode(db) == ~ClearWhileBlank(db).in_blank

\* Mutant: the countdown runs without the "if db.in_blank" of line 183.
RemainOK_Decrements(db) == [db EXCEPT !.clear_left = @ - 1]

\* Mutant: a clear frame while not in_blank zeroes the stored percentages.
RemainOK_ClearsMetrics(db) ==
    [db EXCEPT !.last_black_pct = 0, !.last_white_pct = 0]

\* Clear frame while not in_blank (line 196, "remain OK"): nothing is written.
RemainOK(db) == db

\* Mutant: only the first capture error of a monitor is reported.
ReportError_OnlyFirst(n) == IF n = 0 THEN 1 ELSE n

\* The capture-error report (lines 154-156: one print, one logging.error);
\* n is the number of reports made so far for the monitor.
ReportError(n) == n + 1

\* duration (line 187).
Duration(db, now) == now - db.start_time

\* db = debounces[i] followed by writes to db's fields: only entry i changes.
Store(dbs, i, db) == [dbs EXCEPT ![i] = db]

\* ---------- Initial state: before main runs ----------
Init ==
    /\ pc = "start"
    /\ monitors = 0
    /\ debounces = << >>
    /\ idx = 0
    /\ tick = 0
    /\ clock = 1
    /\ hist = << >>
    /\ events = << >>
    /\ errors = << >>
    /\ warnings = 0
    /\ stopLogs = 0
    /\ cpc = "idle"
    /\ frame = << >>
    /\ scaled = << >>
    /\ metrics = [black_pct |-> 0, white_pct |-> 0, blank_now |-> FALSE]

\* ---------- main, lines 131-143 ----------
\* Mutant: the empty list is not recognised ("if monitors is None").
NoMonitors_Never(n) == FALSE

\* "if not monitors" (line 132).
NoMonitors(n) == n = 0

Startup ==
    /\ pc = "start"
    /\ \E n \in 0 .. MaxMonitors :
        /\ monitors' = n
        /\ IF NoMonitors(n)
           THEN /\ warnings' = warnings + 1
                /\ pc' = "returned"
                /\ UNCHANGED <<debounces, hist, events, errors, tick>>
           ELSE /\ debounces' = [i \in 0 .. (n - 1) |-> Debounce]
                /\ hist' = [i \in 0 .. (n - 1) |-> << >>]
                /\ events' = [i \in 0 .. (n - 1) |-> << >>]
                /\ errors' = [i \in 0 .. (n - 1) |-> 0]
                /\ pc' = "loop"
                /\ tick' = 1
                /\ UNCHANGED warnings
    /\ UNCHANGED <<idx, clock, stopLogs>>
    /\ UNCHANGED cvars

\* ---------- main, lines 146-196: one monitor, one tick ----------
CanCapture ==
    /\ pc = "loop"
    /\ idx < monitors
    /\ (tick - 1) * monitors + idx < MaxCaptures

Record(out) == [out |-> out, now |-> clock]

\* What the sink can do with an event: record it, or raise from the print
\* (lines 172, 190) or from the logging call (lines 174, 192).
SinkOutcomes == {"ok", "print_raised", "log_raised"}

\* An exception raised outside the try block leaves main; only
\* KeyboardInterrupt is caught by the __main__ block.
AfterSink(sink) == IF sink = "ok" THEN "loop" ELSE "crashed"

\* capture_gray or blank_metrics raises (lines 153-157).
CaptureError ==
    /\ CanCapture
    /\ debounces' = Store(debounces, idx, OnCaptureError(debounces[idx]))
    /\ errors' = [errors EXCEPT ![idx] = ReportError(@)]
    /\ hist' = [hist EXCEPT ![idx] = Append(@, Record("error"))]
    /\ idx' = idx + 1
    /\ UNCHANGED <<pc, monitors, tick, clock, events, warnings, stopLogs>>
    /\ UNCHANGED cvars

\* blank_now and not db.in_blank (lines 164-176).
BlankStart ==
    /\ CanCapture
    /\ ~debounces[idx].in_blank
    /\ \E gray \in Frames, sink \in SinkOutcomes :
        LET m == blank_metrics(gray) IN
        /\ m.blank_now
        /\ debounces' = Store(debounces, idx, RisingEdge(debounces[idx], m, clock))
        /\ events' = [events EXCEPT ![idx] =
                        Append(@, [kind |-> "Started", tick |-> tick,
                                   time |-> clock, duration |-> 0,
                                   sink |-> sink])]
        /\ pc' = AfterSink(sink)
    /\ hist' = [hist EXCEPT ![idx] = Append(@, Record("blank"))]
    /\ idx' = idx + 1
    /\ UNCHANGED <<monitors, tick, clock, errors, warnings, stopLogs>>
    /\ UNCHANGED cvars

\* blank_now and db.in_blank (lines 177-181).
BlankContinue ==
    /\ CanCapture
    /\ debounces[idx].in_blank
    /\ \E gray \in Frames :
        LET m == blank_metrics(gray) IN
        /\ m.blank_now
        /\ debounces' = Store(debounces, idx, StillBlank(debounces[idx], m))
    /\ hist' = [hist EXCEPT ![idx] = Append(@, Record("blank"))]
    /\ idx' = idx + 1
    /\ UNCHANGED <<pc, monitors, tick, clock, events, errors, warnings, stopLogs>>
    /\ UNCHANGED cvars

\* not blank_now and db.in_blank (lines 183-195).
ClearActive ==
    /\ CanCapture
    /\ debounces[idx].in_blank
    /\ \E gray \in Frames, sink \in SinkOutcomes :
        /\ ~blank_metrics(gray).blank_now
        /\ debounces' = Store(debounces, idx, ClearWhileBlank(debounces[idx]))
        /\ IF EndsEpisode(debounces[idx])
           THEN /\ events' = [events EXCEPT ![idx] =
                        Append(@, [kind |-> "Ended", tick |-> tick,
                                   time |-> clock,
                                   duration |-> Duration(debounces[idx], clock),
                                   sink |-> sink])]
                /\ pc' = AfterSink(sink)
           ELSE /\ sink = "ok"
                /\ UNCHANGED <<events, pc>>
    /\ hist' = [hist EXCEPT ![idx] = Append(@, Record("clear"))]
    /\ idx' = idx + 1
    /\ UNCHANGED <<monitors, tick, clock, errors, warnings, stopLogs>>
    /\ UNCHANGED cvars

\* not blank_now and not db.in_blank (line 196: remain OK).
ClearIdle ==
    /\ CanCapture
    /\ ~debounces[idx].in_blank
    /\ \E gray \in Frames : ~blank_metrics(gray).blank_now
    /\ debounces' = Store(debounces, idx, RemainOK(debounces[idx]))
    /\ hist' = [hist EXCEPT ![idx] = Append(@, Record("clear"))]
    /\ idx' = idx + 1
    /\ UNCHANGED <<pc, monitors, tick, clock, events, errors,
                   warnings, stopLogs>>
    /\ UNCHANGED cvars

\* ---------- main, line 198: the pass is over, sleep, next pass ----------
Sleep ==
    /\ pc = "loop"
    /\ idx = monitors
    /\ tick < MaxCaptures
    /\ \E d \in BASE_SAMPLE_SEC .. (BASE_SAMPLE_SEC + 1) :
        /\ clock + d <= 1 + tick * BASE_SAMPLE_SEC + MaxDrift
        /\ clock' = clock + d
    /\ tick' = tick + 1
    /\ idx' = 0
    /\ UNCHANGED <<pc, monitors, debounces, hist, events, errors, warnings,
                   stopLogs>>
    /\ UNCHANGED cvars

\* ---------- __main__, lines 203-205: KeyboardInterrupt ----------
Interrupt ==
    /\ pc \in {"start", "loop"}
    /\ pc' = "stopped"
    /\ stopLogs' = stopLogs + 1
    /\ UNCHANGED <<monitors, debounces, idx, tick, clock, hist, events,
                   errors, warnings>>
    /\ UNCHANGED cvars

Next ==
    \/ Startup
    \/ CaptureError
    \/ BlankStart
    \/ BlankContinue
    \/ ClearActive
    \/ ClearIdle
    \/ Sleep
    \/ Interrupt

Spec == Init /\ [][Next]_vars

\* ---------- The loop of main run without end ----------
\* The same loop body (lines 146-198) with no bound on the number of passes.
\* To keep the state finite only the last DEBOUNCE_CLEAR_OK_FRAMES outcomes
\* and the last event of each monitor are kept, the clock and the pass
\* number are not advanced and the error reports are not counted.
Window(h, rec) ==
    LET a == Append(h, rec)
    IN  IF Len(a) > DEBOUNCE_CLEAR_OK_FRAMES THEN Tail(a) ELSE a

Running == pc = "loop" /\ idx < monitors

\* main, lines 131-143.
LiveStartup ==
    /\ pc = "start"
    /\ \E n \in 0 .. LiveMonitors :
        /\ monitors' = n
        /\ IF NoMonitors(n)
           THEN /\ warnings' = warnings + 1
                /\ pc' = "returned"
                /\ UNCHANGED <<debounces, hist, events, errors, tick>>
           ELSE /\ debounces' = [i \in 0 .. (n - 1) |-> Debounce]
                /\ hist' = [i \in 0 .. (n - 1) |-> << >>]
                /\ events' = [i \in 0 .. (n - 1) |-> << >>]
                /\ errors' = [i \in 0 .. (n - 1) |-> 0]
                /\ pc' = "loop"
                /\ tick' = 1
                /\ UNCHANGED warnings
    /\ UNCHANGED <<idx, clock, stopLogs>>
    /\ UNCHANGED cvars

\* capture_gray or blank_metrics raises (lines 153-157).
LiveCaptureError ==
    /\ Running
    /\ debounces' = Store(debounces, idx, OnCaptureError(debounces[idx]))
    /\ hist' = [hist EXCEPT ![idx] = Window(@, Record("error"))]
    /\ idx' = idx + 1
    /\ UNCHANGED <<pc, monitors, tick, clock, events, errors, warnings, stopLogs>>
    /\ UNCHANGED cvars

\* blank_now and not db.in_blank (lines 164-176).
LiveBlankStart ==
    /\ Running
    /\ ~debounces[idx].in_blank
    /\ \E gray \in Frames, sink \in SinkOutcomes :
        LET m == blank_metrics(gray) IN
        /\ m.blank_now
        /\ debounces' = Store(debounces, idx, RisingEdge(debounces[idx], m, clock))
        /\ events' = [events EXCEPT ![idx] =
                        << [kind |-> "Started", tick |-> tick,
                            time |-> clock, duration |-> 0,
                            sink |-> sink] >>]
        /\ pc' = AfterSink(sink)
    /\ hist' = [hist EXCEPT ![idx] = Window(@, Record("blank"))]
    /\ idx' = idx + 1
    /\ UNCHANGED <<monitors, tick, clock, errors, warnings, stopLogs>>
    /\ UNCHANGED cvars

\* blank_now and db.in_blank (lines 177-181).
LiveBlankContinue ==
    /\ Running
    /\ debounces[idx].in_blank
    /\ \E gray \in Frames :
        LET m == blank_metrics(gray) IN
        /\ m.blank_now
        /\ debounces' = Store(debounces, idx, StillBlank(debounces[idx], m))
    /\ hist' = [hist EXCEPT ![idx] = Window(@, Record("blank"))]
    /\ idx' = idx + 1
    /\ UNCHANGED <<pc, monitors, tick, clock, events, errors, warnings, stopLogs>>
    /\ UNCHANGED cvars

\* not blank_now and db.in_blank (lines 183-195).
LiveClearActive ==
    /\ Running
    /\ debounces[idx].in_blank
    /\ \E gray \in Frames, sink \in SinkOutcomes :
        /\ ~blank_metrics(gray).blank_now
        /\ debounces' = Store(debounces, idx, ClearWhileBlank(debounces[idx]))
        /\ IF EndsEpisode(debounces[idx])
           THEN /\ events' = [events EXCEPT ![idx] =
                        << [kind |-> "Ended", tick |-> tick,
                            time |-> clock,
                            duration |-> Duration(debounces[idx], clock),
                            sink |-> sink] >>]
                /\ pc' = AfterSink(sink)
           ELSE /\ sink = "ok"
                /\ UNCHANGED <<events, pc>>
    /\ hist' = [hist EXCEPT ![idx] = Window(@, Record("clear"))]
    /\ idx' = idx + 1
    /\ UNCHANGED <<monitors, tick, clock, errors, warnings, stopLogs>>
    /\ UNCHANGED cvars

\* not blank_now and not db.in_blank (line 196: remain OK).
LiveClearIdle ==
    /\ Running
    /\ ~debounces[idx].in_blank
    /\ \E gray \in Frames : ~blank_metrics(gray).blank_now
    /\ debounces' = Store(debounces, idx, RemainOK(debounces[idx]))
    /\ hist' = [hist EXCEPT ![idx] = Window(@, Record("clear"))]
    /\ idx' = idx + 1
    /\ UNCHANGED <<pc, monitors, tick, clock, events, errors,
                   warnings, stopLogs>>
    /\ UNCHANGED cvars

\* main, line 198: the pass is over, sleep, next pass.
LiveSleep ==
    /\ pc = "loop"
    /\ idx = monitors
    /\ idx' = 0
    /\ UNCHANGED <<pc, monitors, debounces, tick, clock, hist, events, errors,
                   warnings, stopLogs>>
    /\ UNCHANGED cvars

\* The steps main takes by itself once it is started.
LiveLoop ==
    \/ LiveCaptureError
    \/ LiveBlankStart
    \/ LiveBlankContinue
    \/ LiveClearActive
    \/ LiveClearIdle
    \/ LiveSleep

LiveNext ==
    \/ LiveStartup
    \/ LiveLoop
    \/ Interrupt

\* The interpreter keeps running main: a loop step that stays possible is
\* taken.  Nothing obliges an interrupt to arrive.
LiveSpec ==
    /\ Init
    /\ [][LiveNext]_vars
    /\ WF_vars(LiveStartup)
    /\ WF_vars(LiveLoop)

\* ---------- One capture_gray + blank_metrics run on a given frame ----------
\* Luminances around the two thresholds.
Levels == {0, 14, 15, 128, 240, 241, 255}

\* Frames of one luminance, of every shape up to MaxDim x MaxDim.
UniformFrames ==
    {[r \in 1 .. h |-> [c \in 1 .. w |-> v]] :
        h \in 1 .. MaxDim, w \in 1 .. MaxDim, v \in Levels}

\* Frames made of 2x2 blocks of one luminance each (1x1, 1x2 and 2x1 blocks).
BlockFrames ==
    {[r \in 1 .. (2 * Height(b)) |->
        [c \in 1 .. (2 * Width(b)) |-> b[(r + 1) \div 2][(c + 1) \div 2]]] :
        b \in UNION {[1 .. sh[1] -> [1 .. sh[2] -> Levels]] :
                        sh \in {<<1, 1>>, <<1, 2>>, <<2, 1>>}}}

\* Black-and-white frames of up to 2x2 pixels.
TwoToneFrames ==
    UNION {[1 .. h -> [1 .. w -> {0, 255}]] : h \in 1 .. 2, w \in 1 .. 2}

InputFrames == UniformFrames \cup BlockFrames \cup TwoToneFrames

ClassInit ==
    /\ pc = "start"
    /\ monitors = 0
    /\ debounces = << >>
    /\ idx = 0
    /\ tick = 0
    /\ clock = 1
    /\ hist = << >>
    /\ events = << >>
    /\ errors = << >>
    /\ warnings = 0
    /\ stopLogs = 0
    /\ cpc = "gray"
    /\ frame \in InputFrames
    /\ scaled = << >>
    /\ metrics = [black_pct |-> 0, white_pct |-> 0, blank_now |-> FALSE]

\* capture_gray, lines 94-103.
DownscaleFrame ==
    /\ cpc = "gray"
    /\ scaled' = Downscale(frame)
    /\ cpc' = "scaled"
    /\ UNCHANGED <<frame, metrics>>
    /\ UNCHANGED <<pc, monitors, debounces, idx, tick, clock, hist, events,
                   errors, warnings, stopLogs>>

\* main, line 150: blank_metrics(gray) on what capture_gray returned.
Measure ==
    /\ cpc = "scaled"
    /\ metrics' = blank_metrics(Flatten(scaled))
    /\ cpc' = "measured"
    /\ UNCHANGED <<frame, scaled>>
    /\ UNCHANGED <<pc, monitors, debounces, idx, tick, clock, hist, events,
                   errors, warnings, stopLogs>>

ClassNext ==
    \/ DownscaleFrame
    \/ Measure

ClassSpec == ClassInit /\ [][ClassNext]_vars

\* ---------- Projections used by the properties ----------
\* The outcomes of monitor i's ticks, in order.
Outs(i) == [k \in 1 .. Len(hist[i]) |-> hist[i][k].out]

\* The events of monitor i without the sink's outcome.
Emitted(i) ==
    [k \in 1 .. Len(events[i]) |->
        [kind |-> events[i][k].kind, tick |-> events[i][k].tick,
         time |-> events[i][k].time, duration |-> events[i][k].duration]]

Ev(kind, t, time, duration) ==
    [kind |-> kind, tick |-> t, time |-> time, duration |-> duration]

\* The outcomes of monitor i's ticks 1..t whose capture succeeded.
Captured(i, t) ==
    SelectSeq(SubSeq(Outs(i), 1, t), LAMBDA o : o # "error")

\* ---------- C1 ----------
SeqC1 == <<"blank", "blank", "clear", "clear", "blank">>

\* C1 as stated: with debounce count 2, the ticks [blank, blank, clear,
\* clear, blank] from Idle yield exactly one Started event, at tick 1, and no
\* Ended event.
C1_OneStartedNoEnded ==
    \A i \in Mons :
        Outs(i) = SeqC1 =>
            /\ Len(events[i]) = 1
            /\ events[i][1].kind = "Started"
            /\ events[i][1].tick = 1

\* C1 amended: with debounce count 2, the ticks [blank, blank, clear, clear,
\* blank] from Idle yield Started at tick 1, Ended at tick 4 (the second of
\* the two clear ticks, with duration time(tick 4) - time(tick 1)) and a
\* second Started at tick 5.
C1_StartedEndedStarted ==
    \A i \in Mons :
        Outs(i) = SeqC1 =>
            Emitted(i) =
                << Ev("Started", 1, hist[i][1].now, 0),
                   Ev("Ended", 4, hist[i][4].now,
                      hist[i][4].now - hist[i][1].now),
                   Ev("Started", 5, hist[i][5].now, 0) >>

C1_Witness ==
    \E i \in Mons : Outs(i) = SeqC1 /\ pc = "loop" /\ Len(events[i]) = 3

\* ---------- C2 ----------
SeqC2 == <<"blank", "clear", "clear", "clear">>

\* C2: with debounce count 2, the ticks [blank, clear, clear, clear] from
\* Idle yield one Started at tick 1 and one Ended at tick 3, whose duration
\* is time(tick 3) - time(tick 1); the Ended is already there after tick 3
\* and tick 4 adds nothing.
C2_EndedAtThirdTick ==
    \A i \in Mons :
        /\ Outs(i) \in {SeqC2, SubSeq(SeqC2, 1, 3)} =>
            Emitted(i) =
                << Ev("Started", 1, hist[i][1].now, 0),
                   Ev("Ended", 3, hist[i][3].now,
                      hist[i][3].now - hist[i][1].now) >>
        /\ Outs(i) = SubSeq(SeqC2, 1, 2) =>
            Emitted(i) = << Ev("Started", 1, hist[i][1].now, 0) >>

C2_Witness ==
    \E i \in Mons :
        /\ Outs(i) = SeqC2
        /\ pc = "loop"
        /\ Len(events[i]) = 2
        /\ events[i][2].duration > 2

\* ---------- C3 ----------
\* C3: a blank tick while Active resets the clear streak, so an episode ends
\* only after debounce-count consecutive clear ticks with no blank tick
\* between them: the DEBOUNCE_CLEAR_OK_FRAMES captured ticks up to and
\* including the tick of every Ended event are all clear.
C3_EndNeedsConsecutiveClears ==
    \A i \in Mons :
        \A k \in 1 .. Len(events[i]) :
            events[i][k].kind = "Ended" =>
                LET c == Captured(i, events[i][k].tick)
                IN  /\ Len(c) >= DEBOUNCE_CLEAR_OK_FRAMES
                    /\ \A j \in (Len(c) - DEBOUNCE_CLEAR_OK_FRAMES + 1) .. Len(c) :
                          c[j] = "clear"

\* ---------- C4 ----------
\* C4: a tick on which monitor i's capture fails leaves every field of
\* debounces[i] unchanged and hands no event to the sink.
C4_CaptureErrorSkipsTick ==
    [][\A i \in Mons :
          (/\ Len(hist'[i]) = Len(hist[i]) + 1
           /\ hist'[i][Len(hist'[i])].out = "error")
          => /\ debounces'[i] = debounces[i]
             /\ events'[i] = events[i]]_vars

C4_Witness ==
    \E i \in Mons :
        /\ Len(hist[i]) > 1
        /\ hist[i][Len(hist[i])].out = "error"
        /\ debounces[i].in_blank
        /\ debounces[i].clear_left = 1
        /\ Len(events[i]) = 1

\* ---------- One tracker run on its own ----------
\* The fields of a Debounce that decide its events.
Core(db) ==
    [in_blank |-> db.in_blank, clear_left |-> db.clear_left,
     start_time |-> db.start_time]

NoMetrics == [black_pct |-> 0, white_pct |-> 0, blank_now |-> FALSE]

\* The Debounce and the events one monitor reaches when lines 148-196 run on
\* the outcomes h[k..] alone, from db and ev.
RECURSIVE Replay(_, _, _, _)
Replay(h, k, db, ev) ==
    IF k > Len(h) THEN [db |-> db, ev |-> ev]
    ELSE LET o == h[k].out
             now == h[k].now
         IN  CASE o = "error" -> Replay(h, k + 1, OnCaptureError(db), ev)
               [] o = "blank" /\ ~db.in_blank ->
                    Replay(h, k + 1, RisingEdge(db, NoMetrics, now),
                           Append(ev, Ev("Started", k, now, 0)))
               [] o = "blank" /\ db.in_blank ->
                    Replay(h, k + 1, StillBlank(db, NoMetrics), ev)
               [] o = "clear" /\ db.in_blank ->
                    Replay(h, k + 1, ClearWhileBlank(db),
                           IF EndsEpisode(db)
                           THEN Append(ev, Ev("Ended", k, now, Duration(db, now)))
                           ELSE ev)
               [] o = "clear" /\ ~db.in_blank ->
                    Replay(h, k + 1, RemainOK(db), ev)

\* ---------- C5 ----------
\* The state and the events of every monitor are those of a tracker fed that
\* monitor's own outcomes alone.
OwnHistoryDecides ==
    \A j \in Mons :
        LET r == Replay(hist[j], 1, Debounce, << >>)
        IN  /\ Emitted(j) = r.ev
            /\ Core(debounces[j]) = Core(r.db)

\* A pass that has processed a monitor goes on to every other monitor:
\* main does not leave the for-loop with monitors of the pass unprocessed.
PassReachesEveryMonitor ==
    /\ pc \in {"loop", "crashed"} =>
          \A j \in Mons : Len(hist[j]) = IF j < idx THEN tick ELSE tick - 1
    /\ pc = "crashed" => idx = monitors

\* C5: regions are non-interfering: processing monitor i (capture succeeds,
\* fails, or an event is produced) leaves every other monitor's state
\* unchanged, every other monitor is still processed in the same tick, and
\* monitor j's events depend only on monitor j's own outcomes.
C5_NonInterference == OwnHistoryDecides /\ PassReachesEveryMonitor

\* ---------- C6 ----------
\* C6: when the program stops on an interrupt, every episode that produced a
\* Started event has its Ended event.
C6_InterruptFlushesEnded ==
    pc = "stopped" =>
        \A i \in Mons :
            /\ Len(events[i]) % 2 = 0
            /\ Len(events[i]) > 0 => events[i][Len(events[i])].kind = "Ended"

\* ---------- C7 ----------
\* C7: per monitor, at most one event per tick, events only on ticks whose
\* capture succeeded (Started on a blank tick, Ended on a clear tick), the
\* kinds alternate Started, Ended, Started, ... beginning with Started, and
\* the monitor is Active exactly when its last event is a Started.
C7_EventsAlternate ==
    \A i \in Mons :
        /\ \A k \in 1 .. Len(events[i]) :
              /\ events[i][k].kind = IF k % 2 = 1 THEN "Started" ELSE "Ended"
              /\ events[i][k].tick \in 1 .. Len(hist[i])
              /\ hist[i][events[i][k].tick].out =
                    IF events[i][k].kind = "Started" THEN "blank" ELSE "clear"
              /\ k > 1 => events[i][k - 1].tick < events[i][k].tick
        /\ debounces[i].in_blank <=> (Len(events[i]) % 2 = 1)

C7_Witness ==
    \E i \in Mons :
        /\ Len(events[i]) = 3
        /\ debounces[i].in_blank
        /\ Len(hist[i]) > 4

\* ---------- C8 ----------
\* C8: when get_monitors returns no monitors, no Debounce is created, one
\* warning is logged and main returns without entering the loop: no pass,
\* no capture, no event.  (With no monitors the only other states are the
\* one before enumeration and an interrupt before enumeration.)
C8_NoMonitorsReturns ==
    /\ monitors = 0 =>
          /\ pc \in {"start", "returned", "stopped"}
          /\ tick = 0
          /\ debounces = << >> /\ hist = << >> /\ events = << >>
          /\ errors = << >>
          /\ warnings = IF pc = "returned" THEN 1 ELSE 0
    /\ pc = "returned" => monitors = 0

C8_Witness == pc = "returned" /\ monitors = 0 /\ warnings = 1

\* ---------- C9 ----------
\* C9 as stated: start_time holds an episode start (differs from the
\* dataclass default 0.0) if and only if the monitor is Active.
C9_StartTimeIffActive ==
    \A i \in Mons :
        (debounces[i].start_time # Debounce.start_time) <=> debounces[i].in_blank

\* C9 amended: an Active monitor's start_time is the time of its open
\* episode's Started event; an Idle monitor's start_time is the default 0.0
\* before its first episode and afterwards still the start of its last
\* ended episode (it is never cleared).
C9_StartTimeKeptAfterEnd ==
    \A i \in Mons :
        LET n == Len(events[i])
        IN  /\ debounces[i].in_blank =>
                  /\ n > 0
                  /\ events[i][n].kind = "Started"
                  /\ debounces[i].start_time = events[i][n].time
            /\ (~debounces[i].in_blank /\ n = 0) =>
                  debounces[i].start_time = Debounce.start_time
            /\ (~debounces[i].in_blank /\ n > 0) =>
                  /\ events[i][n].kind = "Ended"
                  /\ debounces[i].start_time = events[i][n - 1].time
                  /\ debounces[i].start_time # Debounce.start_time

C9_Witness ==
    \E i \in Mons :
        /\ ~debounces[i].in_blank
        /\ Len(events[i]) = 2
        /\ debounces[i].start_time > 1

\* ---------- C10 ----------
SinkFailed ==
    \E i \in Mons : \E k \in 1 .. Len(events[i]) : events[i][k].sink # "ok"

\* C10: a sink failure while a Started or Ended event is recorded does not
\* end the tick loop, and every monitor's state stays consistent with the
\* events handed over (Active exactly when the last one is a Started).
C10_SinkFailureKeepsLoop ==
    SinkFailed =>
        /\ pc # "crashed"
        /\ \A i \in Mons : debounces[i].in_blank <=> (Len(events[i]) % 2 = 1)

\* ---------- Steps of one monitor, for the step properties ----------
\* This step is a tick of monitor i with outcome out.
Ticked(i, out) ==
    /\ Len(hist'[i]) = Len(hist[i]) + 1
    /\ hist'[i][Len(hist'[i])].out = out

\* Number of clear outcomes among monitor i's ticks a..b.
ClearsIn(i, a, b) ==
    Cardinality({t \in a .. b : hist[i][t].out = "clear"})

\* ---------- C14 ----------
\* C14: a blank tick while Idle makes the monitor Active on that tick, with
\* start_time the tick's time, clear_left the debounce count and the
\* measured percentages stored, and hands exactly one Started event (of that
\* tick and time) to the sink.
C14_BlankWhileIdleStarts ==
    [][\A i \in Mons :
          (Ticked(i, "blank") /\ ~debounces[i].in_blank)
          => /\ debounces'[i].in_blank
             /\ debounces'[i].start_time = clock
             /\ debounces'[i].start_time = hist'[i][Len(hist'[i])].now
             /\ debounces'[i].clear_left = DEBOUNCE_CLEAR_OK_FRAMES
             /\ \E gray \in Frames :
                   /\ blank_metrics(gray).blank_now
                   /\ debounces'[i].last_black_pct = blank_metrics(gray).black_pct
                   /\ debounces'[i].last_white_pct = blank_metrics(gray).white_pct
             /\ Emitted(i)' = Append(Emitted(i), Ev("Started", tick, clock, 0))
             /\ tick = Len(hist'[i])]_vars

C14_Witness ==
    \E i \in Mons :
        /\ Len(hist[i]) > 1
        /\ hist[i][Len(hist[i])].out = "blank"
        /\ hist[i][Len(hist[i]) - 1].out # "blank"
        /\ debounces[i].in_blank
        /\ debounces[i].start_time = hist[i][Len(hist[i])].now
        /\ debounces[i].last_white_pct = 100
        /\ events[i][Len(events[i])].tick = Len(hist[i])

\* ---------- C15 ----------
\* C15: a clear tick while Active lowers clear_left by exactly one; if it
\* reaches zero the monitor becomes Idle and exactly one Ended event with
\* duration = the tick's time - start_time is handed to the sink; otherwise
\* the monitor stays Active and there is no event.  The first clear tick of
\* an episode (clear_left still the debounce count, which is >= 2) never
\* ends it.
C15_ClearWhileActiveCountsDown ==
    [][\A i \in Mons :
          (Ticked(i, "clear") /\ debounces[i].in_blank)
          => /\ debounces'[i].clear_left = debounces[i].clear_left - 1
             /\ debounces'[i].start_time = debounces[i].start_time
             /\ IF debounces'[i].clear_left = 0
                THEN /\ ~debounces'[i].in_blank
                     /\ Emitted(i)' =
                           Append(Emitted(i),
                                  Ev("Ended", tick, clock,
                                     clock - debounces[i].start_time))
                ELSE /\ debounces'[i].in_blank
                     /\ events'[i] = events[i]
             /\ debounces[i].clear_left = DEBOUNCE_CLEAR_OK_FRAMES
                   => debounces'[i].in_blank]_vars

C15_Witness ==
    \E i \in Mons :
        /\ Len(hist[i]) > 2
        /\ hist[i][Len(hist[i])].out = "clear"
        /\ ~debounces[i].in_blank
        /\ Len(events[i]) = 2
        /\ events[i][2].tick = Len(hist[i])
        /\ events[i][2].duration = hist[i][Len(hist[i])].now - debounces[i].start_time
        /\ events[i][2].duration > 2

\* ---------- C16 ----------
\* C16: a clear tick while Idle changes no field of the monitor's Debounce
\* and hands no event to the sink.
C16_ClearWhileIdleNoOp ==
    [][\A i \in Mons :
          (Ticked(i, "clear") /\ ~debounces[i].in_blank)
          => /\ debounces'[i] = debounces[i]
             /\ events'[i] = events[i]]_vars

C16_Witness ==
    \E i \in Mons :
        /\ Len(hist[i]) > 3
        /\ hist[i][Len(hist[i])].out = "clear"
        /\ ~debounces[i].in_blank
        /\ Len(events[i]) = 2
        /\ events[i][2].tick < Len(hist[i])
        /\ debounces[i].last_black_pct = 100

\* ---------- C17 ----------
\* C17: every tick of a monitor whose capture fails makes exactly one error
\* report for that monitor, so the reports number the failed ticks however
\* many of them are consecutive.
C17_OneReportPerFailedTick ==
    \A i \in Mons :
        errors[i] = Cardinality({t \in 1 .. Len(hist[i]) : hist[i][t].out = "error"})

C17_Witness ==
    \E i \in Mons :
        /\ errors[i] = 3
        /\ \E t \in 1 .. (Len(hist[i]) - 2) :
              \A u \in t .. (t + 2) : hist[i][u].out = "error"

\* ---------- C18 ----------
\* C18: an episode ends on exactly the tick at which the number of captured
\* clear ticks since its Started event reaches the debounce count, whatever
\* blank or failed ticks lie between them; while it is open, fewer clear
\* ticks than that have been captured and clear_left is what remains.
C18_EndsAtCumulativeClears ==
    \A i \in Mons :
        \A k \in 1 .. Len(events[i]) :
            events[i][k].kind = "Started" =>
                LET s == events[i][k].tick
                IN  IF k < Len(events[i])
                    THEN LET e == events[i][k + 1].tick
                         IN  /\ hist[i][e].out = "clear"
                             /\ ClearsIn(i, s + 1, e) = DEBOUNCE_CLEAR_OK_FRAMES
                    ELSE /\ ClearsIn(i, s + 1, Len(hist[i])) < DEBOUNCE_CLEAR_OK_FRAMES
                         /\ debounces[i].clear_left =
                               DEBOUNCE_CLEAR_OK_FRAMES - ClearsIn(i, s + 1, Len(hist[i]))

C18_Witness ==
    \E i \in Mons :
        /\ Len(events[i]) = 2
        /\ \E t, u \in (events[i][1].tick + 1) .. (events[i][2].tick - 1) :
              /\ hist[i][t].out = "clear"
              /\ t < u
              /\ hist[i][u].out = "blank"

\* ---------- C19 ----------
\* C19: after every step, an Active monitor has 1 <= clear_left <= debounce
\* count and no monitor has a negative clear_left; clear_left changes only
\* on a clear tick while Active (by minus one) and on the Idle-to-Active
\* transition (to the debounce count).
C19_ClearLeftRange ==
    [][/\ \A i \in 0 .. (monitors' - 1) :
            /\ debounces'[i].clear_left >= 0
            /\ debounces'[i].in_blank =>
                  debounces'[i].clear_left \in 1 .. DEBOUNCE_CLEAR_OK_FRAMES
       /\ \A i \in Mons :
            debounces'[i].clear_left # debounces[i].clear_left =>
                \/ /\ Ticked(i, "clear")
                   /\ debounces[i].in_blank
                   /\ debounces'[i].clear_left = debounces[i].clear_left - 1
                \/ /\ Ticked(i, "blank")
                   /\ ~debounces[i].in_blank
                   /\ debounces'[i].in_blank
                   /\ debounces'[i].clear_left = DEBOUNCE_CLEAR_OK_FRAMES]_vars

C19_Witness ==
    \E i \in Mons :
        /\ debounces[i].in_blank
        /\ debounces[i].clear_left = 1
        /\ hist[i][Len(hist[i])].out = "blank"

\* ---------- Properties of the classifier run ----------
\* The sample blank_metrics was given.
Sample == Flatten(scaled)

Uniform(g) ==
    \A r1, r2 \in 1 .. Height(g) : \A c1, c2 \in 1 .. Width(g) :
        g[r1][c1] = g[r2][c2]

\* ---------- C11 ----------
\* C11: for every sample (of at least one pixel) whose pixels are all below
\* the black threshold, blank_metrics returns blank with black_pct = 100 and
\* white_pct = 0.
C11_AllBlackIsBlank ==
    (/\ cpc = "measured"
     /\ Len(Sample) > 0
     /\ \A k \in 1 .. Len(Sample) : Sample[k] < BLACK_THRESH)
    => metrics = [black_pct |-> 100, white_pct |-> 0, blank_now |-> TRUE]

C11_Witness ==
    /\ cpc = "measured"
    /\ Len(Sample) = 2
    /\ Sample[1] = 0
    /\ Sample[2] = 14
    /\ metrics.blank_now

\* ---------- C12 ----------
\* C12: for every sample (of at least one pixel) whose pixels are all above
\* the white threshold, blank_metrics returns blank with white_pct = 100 and
\* black_pct = 0.
C12_AllWhiteIsBlank ==
    (/\ cpc = "measured"
     /\ Len(Sample) > 0
     /\ \A k \in 1 .. Len(Sample) : Sample[k] > WHITE_THRESH)
    => metrics = [black_pct |-> 0, white_pct |-> 100, blank_now |-> TRUE]

C12_Witness ==
    /\ cpc = "measured"
    /\ Len(Sample) = 2
    /\ Sample[1] = 255
    /\ Sample[2] = 241
    /\ metrics.blank_now

\* ---------- C13 ----------
\* C13: for every uniform frame of any height and width, odd and 1-pixel
\* ones included, the classification after the 0.5 downscale is the
\* classification of the frame itself.
C13_DownscaleKeepsClass ==
    (cpc = "measured" /\ Uniform(frame))
    => metrics.blank_now = blank_metrics(Flatten(frame)).blank_now

\* What does hold: the same for uniform frames of at least 2 x 2 pixels,
\* whose downscale is not empty.
DownscaleKeepsClassFrom2x2 ==
    (cpc = "measured" /\ Uniform(frame)
     /\ Height(frame) >= 2 /\ Width(frame) >= 2)
    => /\ Len(Sample) > 0
       /\ metrics = blank_metrics(Flatten(frame))

\* ---------- C20 ----------
\* The last outcome of monitor i is a captured clear frame.
LastClear(i) ==
    /\ i \in Mons
    /\ Len(hist[i]) > 0
    /\ hist[i][Len(hist[i])].out = "clear"

\* The last DEBOUNCE_CLEAR_OK_FRAMES outcomes of monitor i are all clear.
ClearRun(i) ==
    /\ i \in Mons
    /\ Len(hist[i]) = DEBOUNCE_CLEAR_OK_FRAMES
    /\ \A k \in 1 .. Len(hist[i]) : hist[i][k].out = "clear"

\* Monitor i is Idle and its last event, if any, is an Ended.
IdleAndEnded(i) ==
    /\ i \in Mons
    /\ ~debounces[i].in_blank
    /\ \A k \in 1 .. Len(events[i]) : events[i][k].kind = "Ended"

\* C20: if from some tick onward every tick of a monitor is captured and
\* clear and the loop keeps running, the monitor's open episode (if any) gets
\* its Ended event and the monitor is Idle from then on; and that happens
\* within debounce-count ticks: after that many clear ticks in a row the
\* monitor is Idle with its Ended emitted.
C20_ClearTicksEndEpisode ==
    \A i \in 0 .. (LiveMonitors - 1) :
        /\ [](ClearRun(i) => IdleAndEnded(i))
        /\ (<>[](pc = "loop" /\ LastClear(i))) => <>[]IdleAndEnded(i)

C20_Witness ==
    \E i \in Mons :
        /\ ClearRun(i)
        /\ Len(events[i]) = 1
        /\ events[i][1].kind = "Ended"
        /\ pc = "loop"

====
